---- MODULE Spec2Model ----
(***************************************************************************)
(* Model of web-scraper/scraper.py: the paginated crawl driven by main()   *)
(* and scrape(), the retrying fetch_html(), parse_quotes() seen as the     *)
(* page it is given, and the two sinks save_to_csv() and save_to_sqlite(). *)
(*                                                                         *)
(* A locator is a number (BASE_URL is 1).  A next_href is a relative        *)
(* reference: NoHref models None, h in 1..NumLocators names the page h      *)
(* locators after the page that carries it, wrapping round (h = NumLocators *)
(* is a link to the page itself).                                           *)
(* The remote site is static within a run and is revealed page by page:    *)
(* site[u] is fixed the first time the page at u is parsed, and a later    *)
(* fetch of u sees the same page.  Spec is one run of main(); the CSV file  *)
(* and the SQLite table outlive a run, and RerunSpec adds Restart, main()   *)
(* being run again against the same destinations.                           *)
(* ParseSpec is parse_quotes() alone, applied to page bodies given element  *)
(* by element, with any of the sub-elements of a quote missing.             *)
(***************************************************************************)
EXTENDS Integers, Sequences, FiniteSets, TLC

\* ---------------------------------------------------------------- bounds
NumLocators == 2      \* locators of the modelled site: 1..NumLocators
MaxItems    == 2      \* records on one page: 0..MaxItems
MaxLimit    == 2      \* --limit-pages ranges over 0..MaxLimit
MaxRetries  == 3      \* fetch_html's retries ranges over 1..MaxRetries
MaxFetches  == 3      \* pages fetched over all modelled runs (caps page)
MaxQuotes   == 2      \* div.quote elements in a body given to parse_quotes
MaxTags     == 2      \* a.tag elements in one div.quote
MaxRuns     == 2      \* invocations of main() against the same destinations

\* ------------------------------------------------------ program constants
BASE_URL == 1
NoHref   == 0
DefaultRetries == 3

Locators == 1..NumLocators
Hrefs    == {NoHref} \cup (1..NumLocators)

Outcomes == {"reached_limit", "exhausted", "fetch_exhausted", "sink_error",
             "interrupted"}

\* One line of the CSV file / one row of the quotes table.
HeaderLine == [kind |-> "header", rec |-> <<0, 0>>]
RowOf(r)   == [kind |-> "row", rec |-> r]
OldRecord  == <<0, 1>>

VARIABLES
    \* configuration (main's parsed arguments, fetch_html's parameters)
    limit_pages, retries, delay, csv_path, sqlite_path,
    \* scrape's and fetch_html's locals
    pc, url, page, attempt, html, items, next_href,
    \* the world: remote site, CSV file, SQLite database
    site, csvExists, csvLines, dbTable, dbRows,
    \* how the run ended
    outcome, raised, exitCode,
    \* history
    fetchLog, calls, fails, cycles, sinkLog, runs, fetches,
    csvOrigin, dbOrigin,
    \* more history: where an interrupt arrived, backoff sleeps ended in the
    \* current fetch_html call, polite sleeps ended in the run, fetch_html
    \* calls that returned a body, the values page has taken
    signalAt, sleeps, delays, successes, pageLog,
    \* parse_quotes on its own: the page body given to it, what it returned
    doc, parsed

config == <<limit_pages, retries, delay, csv_path, sqlite_path>>
locals == <<pc, url, page, attempt, html, items, next_href>>
stores == <<csvExists, csvLines, dbTable, dbRows>>
ending == <<outcome, raised, exitCode>>
history == <<fetchLog, calls, fails, cycles, sinkLog, runs, fetches,
             csvOrigin, dbOrigin>>
audit == <<signalAt, sleeps, delays, successes, pageLog>>
parser == <<doc, parsed>>
vars == <<config, locals, site, stores, ending, history, audit, parser>>

\* ------------------------------------------------------- pure operators

\* parse_quotes: one record per div.quote of the page, in document order.
ItemsOf(u, n) == [i \in 1..n |-> <<u, i>>]

UnseenPage == [seen |-> FALSE, next |-> NoHref, n |-> 0]

\* line 173: urljoin(url, next_href) resolves next_href against the current url.
UrljoinKeepsUrl(u, href) == u
Urljoin(u, href) == ((u - 1 + href) % NumLocators) + 1

\* line 160: `if limit_pages and page >= limit_pages`
ReachedLimitNoTruthTest(limit, p) == p >= limit
ReachedLimitOffByOne(limit, p) == limit # 0 /\ p > limit
ReachedLimit(limit, p) == limit # 0 /\ p >= limit

\* line 163: `if not next_href`
NoNext(href) == href = NoHref

\* line 51: the for loop has another attempt after attempt number a
MoreAttemptsOneExtra(a, r) == a <= r
MoreAttempts(a, r) == a < r

\* lines 95-100: _file_exists is "exists and size > 0"
FileExistsIgnoresSize(exists, lines) == exists
FileExists(exists, lines) == exists /\ Len(lines) > 0

\* lines 83, 120: `if not rows: return`
EmptyBatchNeverSkipped(rows) == FALSE
EmptyBatch(rows) == rows = <<>>

\* a save_to_csv that opens the file with mode "w"
CsvAfterTruncates(rows, exists, lines) ==
    <<HeaderLine>> \o [i \in 1..Len(rows) |-> RowOf(rows[i])]

\* lines 86-92: what the CSV file holds after a successful save_to_csv(rows)
CsvAfter(rows, exists, lines) ==
    LET write_header == ~FileExists(exists, lines)
        body == [i \in 1..Len(rows) |-> RowOf(rows[i])]
    IN  lines \o (IF write_header THEN <<HeaderLine>> ELSE <<>>) \o body

\* lines 123-130: the table after a successful save_to_sqlite(rows)
DbAfter(rows, tablerows) ==
    tablerows \o [i \in 1..Len(rows) |-> RowOf(rows[i])]

\* lines 190-205: main's exit code from what scrape raised
MainExitInterruptIsFailure(r) == IF r = "none" THEN 0 ELSE 1
MainExit(r) ==
    IF r = "none" THEN 0
    ELSE IF r = "KeyboardInterrupt" THEN 2
    ELSE 1

\* line 150: page += 1
NextPageNoIncrement(p) == p
NextPage(p) == p + 1

\* line 57: `except Exception` catches every exception but a KeyboardInterrupt
ExceptBare(e) == TRUE
ExceptException(e) == e # "KeyboardInterrupt"

\* lines 168-171: time.sleep(sleep_for) is called only if sleep_for is not 0
PoliteSleepNever(d) == FALSE
PoliteSleep(d) == d > 0

\* lines 149-173: scrape's loop has no try/except, it catches nothing
ScrapeCatchesRuntimeError(r) == r = "RuntimeError"
ScrapeCatches(r) == FALSE

\* ----------------------------------------------------------------- Init
\* ------------------------------------------------ parse_quotes, by element
\* A text is a sequence of characters; a node that select_one may find is
\* [present, s]: whether the element is in the tree, and its text.
EmptyString == <<>>
Missing == [present |-> FALSE, s |-> EmptyString]
Node(t) == [present |-> TRUE, s |-> t]

TextSamples == {<<" ", "x", " ">>}
AuthorSamples == {<<"a">>}
TagSamples == {<<"t">>, <<"u", " ">>}

SeqUpTo(S, n) == UNION {[1..k -> S] : k \in 0..n}

\* div.quote elements: each sub-element may be missing
QuoteElements ==
    [text : {Missing} \cup {Node(t) : t \in TextSamples},
     author : {Missing} \cup {Node(t) : t \in AuthorSamples},
     tags : SeqUpTo(TagSamples, MaxTags)]

\* the `li.next a` element: missing, or present with its href
NextMarkers ==
    {[present |-> FALSE, href |-> NoHref]}
        \cup {[present |-> TRUE, href |-> h] : h \in Hrefs \ {NoHref}}

Documents == [quotes : SeqUpTo(QuoteElements, MaxQuotes), next : NextMarkers]

NoDocument == [quotes |-> <<>>, next |-> [present |-> FALSE, href |-> NoHref]]
NotParsed == [done |-> FALSE, items |-> <<>>, next_href |-> NoHref]

RECURSIVE StripLeft(_)
StripLeft(t) ==
    IF t # <<>> /\ Head(t) = " " THEN StripLeft(Tail(t)) ELSE t

RECURSIVE StripRight(_)
StripRight(t) ==
    IF t # <<>> /\ t[Len(t)] = " "
    THEN StripRight(SubSeq(t, 1, Len(t) - 1)) ELSE t

\* lines 71-72: node.get_text(strip=True)
GetTextStrip(t) == StripRight(StripLeft(t))

\* lines 71-72: `x.get_text(strip=True) if x else ""`
FieldOf(node) == IF node.present THEN GetTextStrip(node.s) ELSE EmptyString

RECURSIVE Join(_)
\* line 73: ", ".join(...) of the stripped tag texts
Join(ts) ==
    IF ts = <<>> THEN EmptyString
    ELSE IF Len(ts) = 1 THEN GetTextStrip(ts[1])
    ELSE GetTextStrip(ts[1]) \o <<",", " ">> \o Join(Tail(ts))

\* lines 70-74: the dict appended for one div.quote
RecordOf(q) ==
    [quote |-> FieldOf(q.text),
     author |-> FieldOf(q.author),
     tags |-> IF q.tags # <<>> THEN Join(q.tags) ELSE EmptyString]

\* lines 77-78: next_link.get("href") if next_link else None
NextHrefOf(d) == IF d.next.present THEN d.next.href ELSE NoHref

\* a parse_quotes that leaves out the div.quote elements without a span.text
ParseQuotesSkipsIncomplete(d) ==
    LET kept == SelectSeq(d.quotes, LAMBDA q : q.text.present)
    IN  [done |-> TRUE,
         items |-> [i \in 1..Len(kept) |-> RecordOf(kept[i])],
         next_href |-> NextHrefOf(d)]

\* lines 64-79: parse_quotes(html)
ParseQuotes(d) ==
    [done |-> TRUE,
     items |-> [i \in 1..Len(d.quotes) |-> RecordOf(d.quotes[i])],
     next_href |-> NextHrefOf(d)]

\* ------------------------------------------------------------------ crawl
InitCrawl ==
    /\ limit_pages \in 0..MaxLimit
    /\ retries \in 1..MaxRetries
    /\ delay \in {0, 1}
    /\ csv_path \in BOOLEAN
    /\ sqlite_path \in BOOLEAN
    /\ pc = "start"
    /\ url = BASE_URL
    /\ page = 0
    /\ attempt = 0
    /\ html = NoHref
    /\ items = <<>>
    /\ next_href = NoHref
    /\ site = [u \in Locators |-> UnseenPage]
    /\ \E c \in {"absent", "empty", "populated"} :
          /\ (~csv_path => c = "absent")
          /\ csvExists = (c # "absent")
          /\ csvLines = IF c = "populated"
                        THEN <<HeaderLine, RowOf(OldRecord)>> ELSE <<>>
    /\ dbTable \in BOOLEAN
    /\ (~sqlite_path => ~dbTable)
    /\ dbRows = IF dbTable THEN <<RowOf(OldRecord)>> ELSE <<>>
    /\ outcome = "none"
    /\ raised = "none"
    /\ exitCode = -1
    /\ fetchLog = <<>>
    /\ calls = 0
    /\ fails = 0
    /\ cycles = 0
    /\ sinkLog = <<>>
    /\ runs = 1
    /\ fetches = 0
    /\ csvOrigin = csvLines
    /\ dbOrigin = dbRows
    /\ signalAt = "none"
    /\ sleeps = 0
    /\ delays = 0
    /\ successes = 0
    /\ pageLog = <<>>

\* The crawl does not call parse_quotes on a document of the element model:
\* its pages are the well-formed ones that ItemsOf summarises.
Init ==
    /\ InitCrawl
    /\ doc = NoDocument
    /\ parsed = NotParsed

\* -------------------------------------------------------------- endings

\* scrape returns or raises r; main (lines 190-205) turns it into the exit code.
Finish(o, r) ==
    /\ pc' = "done"
    /\ outcome' = o
    /\ raised' = r
    /\ exitCode' = MainExit(r)

\* An exception r leaves the statement at hand; scrape's loop goes on at
\* `resume` only if it catches r.
Raise(o, r, resume) ==
    IF ScrapeCatches(r)
    THEN /\ pc' = resume
         /\ outcome' = o
         /\ UNCHANGED <<raised, exitCode>>
    ELSE Finish(o, r)

\* -------------------------------------------------------------- actions

\* lines 141-147 with sqlite_path set: init_sqlite creates the table if absent.
SetupInitSqlite ==
    /\ pc = "start"
    /\ sqlite_path
    /\ dbTable' = TRUE
    /\ pc' = "loop"
    /\ UNCHANGED audit
    /\ UNCHANGED parser
    /\ UNCHANGED <<config, url, page, attempt, html, items, next_href, site,
                   csvExists, csvLines, dbRows, ending, history>>

\* lines 146-147: init_sqlite raises (the database cannot be opened).
SetupInitSqliteFails ==
    /\ pc = "start"
    /\ sqlite_path
    /\ Raise("sink_error", "SinkError", "loop")
    /\ UNCHANGED audit
    /\ UNCHANGED parser
    /\ UNCHANGED <<config, url, page, attempt, html, items, next_href, site,
                   stores, fetchLog, calls, fails, cycles, sinkLog, runs,
                   fetches, csvOrigin, dbOrigin>>

\* lines 141-147 with no sqlite_path.
SetupNoSqlite ==
    /\ pc = "start"
    /\ ~sqlite_path
    /\ pc' = "loop"
    /\ UNCHANGED audit
    /\ UNCHANGED parser
    /\ UNCHANGED <<config, url, page, attempt, html, items, next_href, site,
                   stores, ending, history>>

\* lines 150-152 and 49-51: page += 1, fetch_html(url) starts its first attempt.
BeginPage ==
    /\ pc = "loop"
    /\ fetches < MaxFetches
    /\ page' = NextPage(page)
    /\ fetchLog' = Append(fetchLog, url)
    /\ fetches' = fetches + 1
    /\ attempt' = 1
    /\ calls' = 0
    /\ fails' = 0
    /\ pc' = "get"
    /\ pageLog' = Append(pageLog, NextPage(page))
    /\ sleeps' = 0
    /\ UNCHANGED <<signalAt, delays, successes>>
    /\ UNCHANGED parser
    /\ UNCHANGED <<config, url, html, items, next_href, site, stores, ending,
                   cycles, sinkLog, runs, csvOrigin, dbOrigin>>

\* lines 54-56: session.get succeeds, fetch_html returns the body.
TransportOk ==
    /\ pc = "get"
    /\ calls' = calls + 1
    /\ html' = url
    /\ pc' = "parse"
    /\ successes' = successes + 1
    /\ UNCHANGED <<signalAt, sleeps, delays, pageLog>>
    /\ UNCHANGED parser
    /\ UNCHANGED <<config, url, page, attempt, items, next_href, site, stores,
                   ending, fetchLog, fails, cycles, sinkLog, runs, fetches,
                   csvOrigin, dbOrigin>>

\* lines 54-60: session.get or raise_for_status raises an Exception.
TransportFails ==
    /\ pc = "get"
    /\ calls' = calls + 1
    /\ fails' = fails + 1
    /\ pc' = "backoff"
    /\ UNCHANGED audit
    /\ UNCHANGED parser
    /\ UNCHANGED <<config, url, page, attempt, html, items, next_href, site,
                   stores, ending, fetchLog, cycles, sinkLog, runs, fetches,
                   csvOrigin, dbOrigin>>

\* line 54: KeyboardInterrupt inside session.get; `except Exception` (line 57)
\* does not catch it.
TransportInterrupted ==
    /\ pc = "get"
    /\ calls' = calls + 1
    /\ signalAt' = "get"
    /\ IF ExceptException("KeyboardInterrupt")
       THEN /\ fails' = fails + 1
            /\ pc' = "backoff"
            /\ UNCHANGED ending
       ELSE /\ Finish("interrupted", "KeyboardInterrupt")
            /\ UNCHANGED fails
    /\ UNCHANGED parser
    /\ UNCHANGED <<config, url, page, attempt, html, items, next_href, site,
                   stores, fetchLog, cycles, sinkLog, runs, fetches,
                   csvOrigin, dbOrigin>>
    /\ UNCHANGED <<sleeps, delays, successes, pageLog>>

\* lines 61, 51: the backoff sleep ends and the loop has another attempt.
BackoffRetry ==
    /\ pc = "backoff"
    /\ MoreAttempts(attempt, retries)
    /\ attempt' = attempt + 1
    /\ pc' = "get"
    /\ sleeps' = sleeps + 1
    /\ UNCHANGED <<signalAt, delays, successes, pageLog>>
    /\ UNCHANGED parser
    /\ UNCHANGED <<config, url, page, html, items, next_href, site, stores,
                   ending, history>>

\* lines 61-62: the backoff sleep ends, the loop is over: RuntimeError.
BackoffExhausted ==
    /\ pc = "backoff"
    /\ ~MoreAttempts(attempt, retries)
    /\ Raise("fetch_exhausted", "RuntimeError", "loop")
    /\ sleeps' = sleeps + 1
    /\ UNCHANGED <<signalAt, delays, successes, pageLog>>
    /\ UNCHANGED parser
    /\ UNCHANGED <<config, url, page, attempt, html, items, next_href, site,
                   stores, fetchLog, calls, fails, cycles, sinkLog, runs,
                   fetches, csvOrigin, dbOrigin>>

\* line 61: KeyboardInterrupt inside time.sleep(wait).
BackoffInterrupted ==
    /\ pc = "backoff"
    /\ Finish("interrupted", "KeyboardInterrupt")
    /\ signalAt' = "backoff"
    /\ UNCHANGED <<sleeps, delays, successes, pageLog>>
    /\ UNCHANGED parser
    /\ UNCHANGED <<config, url, page, attempt, html, items, next_href, site,
                   stores, fetchLog, calls, fails, cycles, sinkLog, runs,
                   fetches, csvOrigin, dbOrigin>>

\* line 153 (64-79): parse_quotes(html).  The page at html is read off the
\* site; a page not seen before is fixed now.
Parse ==
    /\ pc = "parse"
    /\ \E nx \in Hrefs, n \in 0..MaxItems :
          LET pg == IF site[html].seen THEN site[html]
                    ELSE [seen |-> TRUE, next |-> nx, n |-> n]
          IN  /\ site' = [site EXCEPT ![html] = pg]
              /\ items' = ItemsOf(html, pg.n)
              /\ next_href' = pg.next
    /\ pc' = "csv"
    /\ UNCHANGED audit
    /\ UNCHANGED parser
    /\ UNCHANGED <<config, url, page, attempt, html, stores, ending, history>>

SinkCall(sink, ok) == [sink |-> sink, page |-> page, rows |-> items, ok |-> ok]

\* lines 155-156 with no csv_path.
SkipCsv ==
    /\ pc = "csv"
    /\ ~csv_path
    /\ pc' = "sqlite"
    /\ UNCHANGED audit
    /\ UNCHANGED parser
    /\ UNCHANGED <<config, url, page, attempt, html, items, next_href, site,
                   stores, ending, history>>

\* lines 155-156, 81-93: save_to_csv(items, csv_path) returns.
SaveCsv ==
    /\ pc = "csv"
    /\ csv_path
    /\ IF EmptyBatch(items)
       THEN UNCHANGED <<csvExists, csvLines>>
       ELSE /\ csvExists' = TRUE
            /\ csvLines' = CsvAfter(items, csvExists, csvLines)
    /\ sinkLog' = Append(sinkLog, SinkCall("csv", TRUE))
    /\ pc' = "sqlite"
    /\ UNCHANGED audit
    /\ UNCHANGED parser
    /\ UNCHANGED <<config, url, page, attempt, html, items, next_href, site,
                   dbTable, dbRows, ending, fetchLog, calls, fails, cycles,
                   runs, fetches, csvOrigin, dbOrigin>>

\* line 88: open(csv_path, "a") raises OSError; nothing was written.
SaveCsvFails ==
    /\ pc = "csv"
    /\ csv_path
    /\ ~EmptyBatch(items)
    /\ sinkLog' = Append(sinkLog, SinkCall("csv", FALSE))
    /\ Raise("sink_error", "SinkError", "sqlite")
    /\ UNCHANGED audit
    /\ UNCHANGED parser
    /\ UNCHANGED <<config, url, page, attempt, html, items, next_href, site,
                   stores, fetchLog, calls, fails, cycles, runs, fetches,
                   csvOrigin, dbOrigin>>

\* lines 157-158 with no sqlite_path.
SkipSqlite ==
    /\ pc = "sqlite"
    /\ ~sqlite_path
    /\ cycles' = cycles + 1
    /\ pc' = "check"
    /\ UNCHANGED audit
    /\ UNCHANGED parser
    /\ UNCHANGED <<config, url, page, attempt, html, items, next_href, site,
                   stores, ending, fetchLog, calls, fails, sinkLog, runs,
                   fetches, csvOrigin, dbOrigin>>

\* lines 157-158, 118-131: save_to_sqlite(items, sqlite_path) returns.
SaveSqlite ==
    /\ pc = "sqlite"
    /\ sqlite_path
    /\ IF EmptyBatch(items)
       THEN UNCHANGED dbRows
       ELSE dbRows' = DbAfter(items, dbRows)
    /\ sinkLog' = Append(sinkLog, SinkCall("sqlite", TRUE))
    /\ cycles' = cycles + 1
    /\ pc' = "check"
    /\ UNCHANGED audit
    /\ UNCHANGED parser
    /\ UNCHANGED <<config, url, page, attempt, html, items, next_href, site,
                   csvExists, csvLines, dbTable, ending, fetchLog, calls,
                   fails, runs, fetches, csvOrigin, dbOrigin>>

\* lines 123-129: connect, executemany or commit raises; nothing is committed.
SaveSqliteFails ==
    /\ pc = "sqlite"
    /\ sqlite_path
    /\ ~EmptyBatch(items)
    /\ sinkLog' = Append(sinkLog, SinkCall("sqlite", FALSE))
    /\ Raise("sink_error", "SinkError", "check")
    /\ UNCHANGED audit
    /\ UNCHANGED parser
    /\ UNCHANGED <<config, url, page, attempt, html, items, next_href, site,
                   stores, fetchLog, calls, fails, cycles, runs, fetches,
                   csvOrigin, dbOrigin>>

\* lines 160-162: the page limit is reached, scrape returns.
StopAtLimit ==
    /\ pc = "check"
    /\ ReachedLimit(limit_pages, page)
    /\ Finish("reached_limit", "none")
    /\ UNCHANGED audit
    /\ UNCHANGED parser
    /\ UNCHANGED <<config, url, page, attempt, html, items, next_href, site,
                   stores, fetchLog, calls, fails, cycles, sinkLog, runs,
                   fetches, csvOrigin, dbOrigin>>

\* lines 163-165: no next link, scrape returns.
StopNoNext ==
    /\ pc = "check"
    /\ ~ReachedLimit(limit_pages, page)
    /\ NoNext(next_href)
    /\ Finish("exhausted", "none")
    /\ UNCHANGED audit
    /\ UNCHANGED parser
    /\ UNCHANGED <<config, url, page, attempt, html, items, next_href, site,
                   stores, fetchLog, calls, fails, cycles, sinkLog, runs,
                   fetches, csvOrigin, dbOrigin>>

\* lines 160-168: neither break is taken.
Advance ==
    /\ pc = "check"
    /\ ~ReachedLimit(limit_pages, page)
    /\ ~NoNext(next_href)
    /\ pc' = "delay"
    /\ UNCHANGED audit
    /\ UNCHANGED parser
    /\ UNCHANGED <<config, url, page, attempt, html, items, next_href, site,
                   stores, ending, history>>

\* lines 168-173: the polite delay (a sleep only if delay > 0), then
\* url = urljoin(url, next_href).
Delay ==
    /\ pc = "delay"
    /\ url' = Urljoin(url, next_href)
    /\ pc' = "loop"
    /\ delays' = IF PoliteSleep(delay) THEN delays + 1 ELSE delays
    /\ UNCHANGED <<signalAt, sleeps, successes, pageLog>>
    /\ UNCHANGED parser
    /\ UNCHANGED <<config, page, attempt, html, items, next_href, site,
                   stores, ending, history>>

\* line 171: KeyboardInterrupt inside time.sleep(sleep_for).
DelayInterrupted ==
    /\ pc = "delay"
    /\ PoliteSleep(delay)
    /\ Finish("interrupted", "KeyboardInterrupt")
    /\ signalAt' = "delay"
    /\ UNCHANGED <<sleeps, delays, successes, pageLog>>
    /\ UNCHANGED parser
    /\ UNCHANGED <<config, url, page, attempt, html, items, next_href, site,
                   stores, fetchLog, calls, fails, cycles, sinkLog, runs,
                   fetches, csvOrigin, dbOrigin>>

\* main() is run again with the same arguments: the CSV file and the database
\* are as the last run left them, everything else starts afresh.
Restart ==
    /\ pc = "done"
    /\ runs < MaxRuns
    /\ runs' = runs + 1
    /\ pc' = "start"
    /\ url' = BASE_URL
    /\ page' = 0
    /\ attempt' = 0
    /\ html' = NoHref
    /\ items' = <<>>
    /\ next_href' = NoHref
    /\ site' = [u \in Locators |-> UnseenPage]
    /\ outcome' = "none"
    /\ raised' = "none"
    /\ exitCode' = -1
    /\ fetchLog' = <<>>
    /\ calls' = 0
    /\ fails' = 0
    /\ cycles' = 0
    /\ sinkLog' = <<>>
    /\ signalAt' = "none"
    /\ sleeps' = 0
    /\ delays' = 0
    /\ successes' = 0
    /\ pageLog' = <<>>
    /\ UNCHANGED parser
    /\ UNCHANGED <<config, stores, fetches, csvOrigin, dbOrigin>>

Next ==
    \/ SetupInitSqlite
    \/ SetupInitSqliteFails
    \/ SetupNoSqlite
    \/ BeginPage
    \/ TransportOk
    \/ TransportFails
    \/ TransportInterrupted
    \/ BackoffRetry
    \/ BackoffExhausted
    \/ BackoffInterrupted
    \/ Parse
    \/ SkipCsv
    \/ SaveCsv
    \/ SaveCsvFails
    \/ SkipSqlite
    \/ SaveSqlite
    \/ SaveSqliteFails
    \/ StopAtLimit
    \/ StopNoNext
    \/ Advance
    \/ Delay
    \/ DelayInterrupted

\* One run of main().
Spec == Init /\ [][Next]_vars

\* main() run up to MaxRuns times against the same destination, one sink at
\* a time, with the defaults of fetch_html's retries (line 49) and of --delay
\* (line 180).
InitRerun ==
    /\ Init
    /\ retries = DefaultRetries
    /\ delay = 1
    /\ csv_path # sqlite_path

NextRerun ==
    \/ Next
    \/ Restart

RerunSpec == InitRerun /\ [][NextRerun]_vars

\* ----------------------------------------------- parse_quotes on any body
\* One quiescent crawl, and any page body of the element model.
InitParse ==
    /\ InitCrawl
    /\ limit_pages = 0
    /\ retries = DefaultRetries
    /\ delay = 1
    /\ ~csv_path
    /\ ~sqlite_path
    /\ doc \in Documents
    /\ parsed = NotParsed

\* lines 64-79: one call parse_quotes(doc)
ParseDocument ==
    /\ ~parsed.done
    /\ parsed' = ParseQuotes(doc)
    /\ UNCHANGED <<config, locals, site, stores, ending, history, audit, doc>>

NextParse == ParseDocument

ParseSpec == InitParse /\ [][NextParse]_vars

\* ------------------------------------------------------ claim helpers

Completed == pc = "done" /\ raised = "none"

\* Every page parsed so far in this run has a next link.
AllPagesHaveNext == \A u \in Locators : site[u].seen => site[u].next # NoHref

\* The page a reference h carried by the page at u leads to.
Target(u, h) == ((u + h - 1) % NumLocators) + 1

\* The locators met by following the site's next links from acc's last one,
\* for at most `steps` links, stopping at a page with no next link or at a
\* page not parsed yet.
RECURSIVE Walk(_, _)
Walk(acc, steps) ==
    LET u == acc[Len(acc)]
    IN  IF steps = 0 \/ ~site[u].seen \/ site[u].next = NoHref
        THEN acc
        ELSE Walk(Append(acc, Target(u, site[u].next)), steps - 1)

SitePath == Walk(<<BASE_URL>>, MaxFetches)

NoRepeat(q) == \A i, j \in DOMAIN q : i # j => q[i] # q[j]

IsPrefix(a, b) == Len(a) <= Len(b) /\ \A i \in DOMAIN a : a[i] = b[i]

\* ---------------------------------------------------------------- claims

\* C1: with a page limit N >= 1 the run never starts an (N+1)-th fetch; if
\* every page has a next link and the run is not aborted (every fetch
\* succeeds in the end, no sink error, no interrupt), it ends with the
\* reached-limit termination after exactly N fetch/extract/persist cycles.
C1_ReachedLimitAfterNCycles ==
    limit_pages >= 1 =>
        /\ Len(fetchLog) <= limit_pages
        /\ page <= limit_pages
        /\ (Completed /\ AllPagesHaveNext =>
               /\ outcome = "reached_limit"
               /\ Len(fetchLog) = limit_pages
               /\ cycles = limit_pages)

C1_Witness ==
    /\ Completed
    /\ AllPagesHaveNext
    /\ limit_pages = 2
    /\ outcome = "reached_limit"
    /\ cycles = 2
    /\ fetchLog = <<1, 2>>

\* C2: with page limit 0 the run fetches exactly the pages of the chain that
\* starts at the seed, once each and in chain order; a run that is not
\* aborted ends with the exhausted-pagination termination, at the page
\* without a next link, after as many cycles as the chain has pages.
C2_ExhaustedAfterChain ==
    limit_pages = 0 =>
        /\ IsPrefix(fetchLog, SitePath)
        /\ (Completed =>
               /\ outcome = "exhausted"
               /\ fetchLog = SitePath
               /\ site[fetchLog[Len(fetchLog)]].next = NoHref
               /\ \A i \in 1..(Len(fetchLog) - 1) :
                      site[fetchLog[i]].next # NoHref
               /\ cycles = Len(fetchLog))

C2_Witness ==
    /\ limit_pages = 0
    /\ Completed
    /\ outcome = "exhausted"
    /\ fetchLog = <<1, 2>>
    /\ cycles = 2
    /\ site[2].next = NoHref

\* C3: one fetch_html call makes at most `retries` transport calls; when it
\* returns a body, the calls made are the failed ones and one more, and none
\* of the failures surfaced; when it gives up, exactly `retries` calls were
\* made, all failed, and the error raised is the exhaustion RuntimeError.
C3_AtMostMaxAttempts ==
    /\ calls <= retries
    /\ fails <= calls
    /\ (pc \in {"parse", "csv", "sqlite", "check", "delay"} =>
           /\ calls = fails + 1
           /\ fails < retries
           /\ html = url
           /\ raised = "none")
    /\ (outcome = "fetch_exhausted" =>
           /\ calls = retries
           /\ fails = retries
           /\ raised = "RuntimeError")
    /\ (raised = "RuntimeError" => outcome = "fetch_exhausted")

C3_Witness ==
    /\ retries = 3
    /\ pc = "parse"
    /\ fails = 2
    /\ calls = 3

\* C4: once a fetch is exhausted the run is over: scrape is left, main
\* reports the failure (exit code 1), the page is not fetched again, and no
\* extraction or sink write was made for it.
C4_ExhaustionAborts ==
    outcome = "fetch_exhausted" =>
        /\ pc = "done"
        /\ exitCode = 1
        /\ Len(fetchLog) = page
        /\ cycles = page - 1
        /\ \A i \in DOMAIN sinkLog : sinkLog[i].page < page

C4_Witness ==
    /\ outcome = "fetch_exhausted"
    /\ page = 2
    /\ cycles = 1
    /\ Len(sinkLog) = 2

\* C5 (as claimed): a sink failure does not abort the traversal; the batch of
\* the page still reaches the other configured sink and the run ends in one
\* of its normal ways.
C5_SinkFailureDoesNotAbort ==
    /\ outcome # "sink_error"
    /\ \A i \in DOMAIN sinkLog :
          (~sinkLog[i].ok /\ pc = "done" /\ csv_path /\ sqlite_path) =>
              \E j \in DOMAIN sinkLog :
                  /\ sinkLog[j].sink # sinkLog[i].sink
                  /\ sinkLog[j].page = sinkLog[i].page

CountHeaders(q) == Cardinality({i \in DOMAIN q : q[i] = HeaderLine})

CsvAdded == SubSeq(csvLines, Len(csvOrigin) + 1, Len(csvLines))

\* C6: over all save_to_csv calls of all runs against one file, the header
\* is written exactly once, as the first line, if the file was empty or
\* absent before the first run, and never if the file already had content.
C6_HeaderExactlyOnce ==
    /\ IsPrefix(csvOrigin, csvLines)
    /\ (csvOrigin # <<>> => CountHeaders(CsvAdded) = 0)
    /\ (csvOrigin = <<>> /\ csvLines # <<>> =>
           /\ csvLines[1] = HeaderLine
           /\ CountHeaders(csvLines) = 1)
    /\ \A i \in DOMAIN sinkLog :
          (sinkLog[i].sink = "csv" /\ sinkLog[i].ok /\ sinkLog[i].rows # <<>>)
              => Len(CsvAdded) >= Len(sinkLog[i].rows)
                 /\ CountHeaders(csvLines) = 1

C6_Witness ==
    /\ runs = 2
    /\ csvOrigin = <<>>
    /\ Len(sinkLog) = 1
    /\ sinkLog[1].sink = "csv"
    /\ sinkLog[1].ok
    /\ Len(sinkLog[1].rows) = 2
    /\ Len(csvLines) = 5
    /\ CountHeaders(csvLines) = 1

\* C7: a sink called with an empty batch returns without an error and leaves
\* its destination as it was: no line, no row, no file created.
C7_EmptyBatchNoOp ==
    [][/\ (pc = "csv" /\ csv_path /\ items = <<>>) =>
              /\ csvExists' = csvExists
              /\ csvLines' = csvLines
              /\ raised' = "none"
              /\ pc' = "sqlite"
       /\ (pc = "sqlite" /\ sqlite_path /\ items = <<>>) =>
              /\ dbTable' = dbTable
              /\ dbRows' = dbRows
              /\ raised' = "none"
              /\ pc' = "check"]_vars

C7_Witness ==
    /\ pc = "check"
    /\ Len(sinkLog) = 2
    /\ sinkLog[1] = [sink |-> "csv", page |-> 1, rows |-> <<>>, ok |-> TRUE]
    /\ sinkLog[2] = [sink |-> "sqlite", page |-> 1, rows |-> <<>>, ok |-> TRUE]
    /\ ~csvExists
    /\ dbRows = <<>>

\* C8 (as claimed): a run that is over ended by reached-limit, by
\* exhausted-pagination or by fetch exhaustion (or was interrupted).
C8_EndsInOneOfThree ==
    pc = "done" =>
        outcome \in {"reached_limit", "exhausted", "fetch_exhausted",
                     "interrupted"}

RunOutcomes == {"reached_limit", "exhausted", "fetch_exhausted", "interrupted"}

\* What scrape raises in a run with outcome o (lines 62, 160-165, 200).
RaisedBy(o) ==
    CASE o = "fetch_exhausted" -> "RuntimeError"
      [] o = "interrupted" -> "KeyboardInterrupt"
      [] o = "sink_error" -> "SinkError"
      [] OTHER -> "none"

\* The exit code main returns for a run with outcome o.
ExitOf(o) == MainExit(RaisedBy(o))

\* C9 (as claimed): the exit code of a finished run is the exit code of no
\* other of the four run outcomes.
C9_DistinctExitPerOutcome ==
    (pc = "done" /\ outcome \in RunOutcomes) =>
        \A o \in RunOutcomes \ {outcome} : exitCode # ExitOf(o)

\* C9 (amended): the run outcomes map to three exit codes: 0 for both
\* completed outcomes, 1 for fetch exhaustion, 2 for interruption; the exit
\* code of a finished run is that of a different outcome only if both are
\* completed outcomes.
C9_ThreeExitCodes ==
    (pc = "done" /\ outcome \in RunOutcomes) =>
        /\ raised = RaisedBy(outcome)
        /\ exitCode = CASE outcome = "fetch_exhausted" -> 1
                        [] outcome = "interrupted" -> 2
                        [] OTHER -> 0
        /\ \A o \in RunOutcomes \ {outcome} :
              {o, outcome} # {"reached_limit", "exhausted"}
                  => exitCode # ExitOf(o)

C9_Witness ==
    /\ pc = "done"
    /\ outcome = "interrupted"
    /\ exitCode = 2
    /\ Len(fetchLog) = 2

\* C10 (as claimed): no locator is fetched twice within one run.
C10_NoLocatorFetchedTwice == NoRepeat(fetchLog)

\* C10 (amended): within one run no locator is fetched twice, provided the
\* next links followed from the seed lead to no page twice (no cycle).
C10_NoRepeatWithoutCycle == NoRepeat(SitePath) => NoRepeat(fetchLog)

C10_Witness ==
    /\ pc = "done"
    /\ limit_pages = 0
    /\ fetchLog = <<1, 2>>
    /\ NoRepeat(SitePath)

RECURSIVE Flatten(_)
\* The rows of a sequence of sink calls, one after the other.
Flatten(q) ==
    IF q = <<>> THEN <<>>
    ELSE [i \in 1..Len(Head(q).rows) |-> RowOf(Head(q).rows[i])]
             \o Flatten(Tail(q))

IsWrite(c, sink) == c.sink = sink /\ c.ok

\* The rows of the calls of this run that a sink completed, in call order.
WrittenCsv == Flatten(SelectSeq(sinkLog, LAMBDA c : IsWrite(c, "csv")))
WrittenDb == Flatten(SelectSeq(sinkLog, LAMBDA c : IsWrite(c, "sqlite")))

\* The lines of the CSV file that are rows.
CsvRows(lines) == SelectSeq(lines, LAMBDA l : l.kind = "row")

\* C11: an interrupt that arrives in a transport call, in a backoff sleep or
\* in the polite delay ends the run at once: the retry loop does not count
\* it as a failed attempt, nothing is fetched or written after it, the rows
\* of every completed sink call are still in the sinks, and main reports it
\* with an exit code of its own, not that of a fetch or sink failure.
C11_InterruptAborts ==
    signalAt # "none" =>
        /\ pc = "done"
        /\ outcome = "interrupted"
        /\ raised = "KeyboardInterrupt"
        /\ exitCode = 2
        /\ exitCode # ExitOf("fetch_exhausted")
        /\ exitCode # ExitOf("sink_error")
        /\ (signalAt = "get" => calls = fails + 1 /\ successes = page - 1)
        /\ (signalAt = "backoff" => calls = fails /\ sleeps = fails - 1)
        /\ (signalAt = "delay" => delays = page - 1 /\ Len(fetchLog) = page)
        /\ \A i \in DOMAIN sinkLog :
              sinkLog[i].ok /\ sinkLog[i].page <= successes
        /\ CsvRows(csvLines) = CsvRows(csvOrigin) \o WrittenCsv
        /\ dbRows = dbOrigin \o WrittenDb

C11_Witness ==
    /\ signalAt = "backoff"
    /\ pc = "done"
    /\ exitCode = 2
    /\ page = 2
    /\ fails = 2
    /\ Len(sinkLog) = 2
    /\ Len(WrittenCsv) = 2
    /\ Len(WrittenDb) = 2

\* C12 (as claimed): a backoff sleep happens only between a failed attempt
\* and the attempt after it: no sleep without a failure before it, none
\* after a success, none that is not followed by another attempt, so that a
\* fetch_html call that gives up has slept retries - 1 times.
C12_SleepOnlyBetweenAttempts ==
    /\ sleeps <= fails
    /\ (pc = "get" => sleeps = calls)
    /\ (pc \in {"parse", "csv", "sqlite", "check", "delay"} => sleeps = fails)
    /\ (pc # "get" /\ calls > 0 => sleeps <= calls - 1)
    /\ (outcome = "fetch_exhausted" => sleeps = retries - 1)

\* C13: for every page body with N div.quote elements, whichever of their
\* sub-elements are missing, parse_quotes returns N records in document
\* order: record i is made from element i, a missing sub-element gives the
\* empty string and the record is kept; with no div.quote the list is empty;
\* next_href is the href of the next marker, or none without a marker.
C13_ParseKeepsEveryRecord ==
    parsed.done =>
        /\ Len(parsed.items) = Len(doc.quotes)
        /\ (doc.quotes = <<>> => parsed.items = <<>>)
        /\ \A i \in DOMAIN doc.quotes :
              LET q == doc.quotes[i]
                  r == parsed.items[i]
              IN  /\ r.quote = IF q.text.present
                               THEN GetTextStrip(q.text.s) ELSE EmptyString
                  /\ r.author = IF q.author.present
                                THEN GetTextStrip(q.author.s) ELSE EmptyString
                  /\ (q.tags = <<>> => r.tags = EmptyString)
                  /\ (Len(q.tags) = 1 => r.tags = GetTextStrip(q.tags[1]))
                  /\ (Len(q.tags) = 2 =>
                         r.tags = GetTextStrip(q.tags[1]) \o <<",", " ">>
                                      \o GetTextStrip(q.tags[2]))
        /\ (doc.next.present => parsed.next_href = doc.next.href)
        /\ (~doc.next.present => parsed.next_href = NoHref)

C13_Witness ==
    /\ parsed.done
    /\ Len(doc.quotes) = 2
    /\ ~doc.quotes[1].text.present
    /\ ~doc.quotes[1].author.present
    /\ doc.quotes[1].tags = <<>>
    /\ doc.quotes[2].text.present
    /\ Len(doc.quotes[2].tags) = 2
    /\ doc.next.present
    /\ Len(parsed.items) = 2
    /\ parsed.items[1] = [quote |-> <<>>, author |-> <<>>, tags |-> <<>>]
    /\ parsed.items[2].quote = <<"x">>
    /\ parsed.next_href = doc.next.href

\* The calls of the log made to a sink for page p.
CallsFor(sink, p) ==
    {i \in DOMAIN sinkLog : sinkLog[i].sink = sink /\ sinkLog[i].page = p}

\* The batch extracted from the p-th page fetched in this run.
BatchOf(p) == ItemsOf(fetchLog[p], site[fetchLog[p]].n)

\* The persisting step of the p-th page is over.
Persisted(p) ==
    p <= successes /\ (p < page \/ pc \in {"check", "delay", "loop", "done"})

\* C14 (as claimed): every configured sink gets exactly one call for every
\* page fetched, with the batch of that page, also when it is empty, csv
\* before sqlite, after the extraction and before the termination check and
\* the next fetch; with no sink configured no destination is changed.
C14_EachSinkOncePerPage ==
    /\ \A i \in DOMAIN sinkLog :
          /\ sinkLog[i].page \in 1..successes
          /\ sinkLog[i].rows = BatchOf(sinkLog[i].page)
          /\ (sinkLog[i].sink = "csv" => csv_path)
          /\ (sinkLog[i].sink = "sqlite" => sqlite_path)
          /\ \A j \in DOMAIN sinkLog :
                i < j => \/ sinkLog[i].page < sinkLog[j].page
                         \/ /\ sinkLog[i].page = sinkLog[j].page
                            /\ sinkLog[i].sink = "csv"
                            /\ sinkLog[j].sink = "sqlite"
    /\ \A p \in 1..successes :
          Persisted(p) =>
              /\ (csv_path => Cardinality(CallsFor("csv", p)) = 1)
              /\ (sqlite_path => Cardinality(CallsFor("sqlite", p)) = 1)
    /\ (~csv_path /\ ~sqlite_path =>
           /\ sinkLog = <<>>
           /\ cycles = Cardinality({p \in 1..successes : Persisted(p)})
           /\ ~csvExists /\ csvLines = csvOrigin
           /\ ~dbTable /\ dbRows = dbOrigin)

\* C15: with delay > 0 exactly one polite sleep lies between two
\* successive page fetches, after the sinks got the batch of the earlier
\* page and before the first transport call for the later one; none
\* precedes the first fetch and none follows the last page; the locator
\* fetched next is the next_href of the current page resolved against the
\* current page's locator.
C15_OneDelayBetweenPages ==
    /\ (delay > 0 =>
           /\ (page = 0 => delays = 0)
           /\ (page > 0 /\ pc # "loop" => delays = page - 1)
           /\ (page > 0 /\ pc = "loop" =>
                  /\ delays = page
                  /\ cycles = page
                  /\ Len(fetchLog) = page))
    /\ (pc = "delay" => cycles = page /\ ~ReachedLimit(limit_pages, page))
    /\ (fetchLog # <<>> => fetchLog[1] = BASE_URL)
    /\ \A i \in 1..(Len(fetchLog) - 1) :
          /\ site[fetchLog[i]].next # NoHref
          /\ fetchLog[i + 1] = Target(fetchLog[i], site[fetchLog[i]].next)
    /\ (pc = "loop" /\ page > 0 =>
           url = Target(fetchLog[page], site[fetchLog[page]].next))

C15_Witness ==
    /\ delay = 1
    /\ pc = "done"
    /\ outcome = "exhausted"
    /\ page = 2
    /\ delays = 1
    /\ fetchLog = <<1, 2>>
    /\ site[1].next = 1
    /\ site[2].next = NoHref
    /\ Len(sinkLog) = 4

\* The values page has taken grow by one from 1: none is lower than the one
\* before, none is taken for two pages.
CountsUp(q) == \A i \in DOMAIN q : q[i] = i

\* C16 (as claimed): page is 1 while the first page is being fetched, never
\* decreases, never has one value for two pages, and in every state is the
\* number of pages fetched successfully so far.
C16_CountsSuccessfulFetches ==
    /\ (pc \in {"get", "backoff"} /\ Len(fetchLog) = 1 => page = 1)
    /\ CountsUp(pageLog)
    /\ page = successes

\* C16 (amended): page is 1 while the first page is being fetched, never
\* decreases and never has one value for two pages; it is incremented when
\* the fetch of a page starts, so it is the number of fetches started: the
\* number of pages fetched successfully once the fetch of the current page
\* has returned, one more while that fetch is going on and after it failed.
C16_CountsFetchesStarted ==
    /\ (pc \in {"get", "backoff"} /\ Len(fetchLog) = 1 => page = 1)
    /\ CountsUp(pageLog)
    /\ page = Len(pageLog)
    /\ page = Len(fetchLog)
    /\ (pc \in {"start", "loop", "parse", "csv", "sqlite", "check", "delay"}
           => page = successes)
    /\ (pc \in {"get", "backoff"} => page = successes + 1)
    /\ (outcome = "fetch_exhausted" => page = successes + 1)
    /\ (outcome \in {"reached_limit", "exhausted"} => page = successes)

C16_Witness ==
    /\ outcome = "fetch_exhausted"
    /\ pageLog = <<1, 2>>
    /\ page = 2
    /\ successes = 1

RECURSIVE RowsOfPages(_, _)
\* The rows of the batches of pages 1..p whose write to the sink completed,
\* page after page, each batch in the order of extraction.
RowsOfPages(sink, p) ==
    IF p = 0 THEN <<>>
    ELSE RowsOfPages(sink, p - 1)
            \o (IF \E i \in CallsFor(sink, p) : sinkLog[i].ok
                THEN [k \in 1..Len(BatchOf(p)) |-> RowOf(BatchOf(p)[k])]
                ELSE <<>>)

====
